---- MODULE Spec2Model ----
(***************************************************************************)
(* Model of the array-backed range-sum segment tree (src/src/lib.rs; the   *)
(* copy in src/src/main.rs is the same code with build_nodes_recursive     *)
(* named build_nodes).                                                     *)
(*                                                                         *)
(* isize is modelled as an IntBits-bit two's complement integer and usize  *)
(* as an IndexBits-bit unsigned integer.  Rust defines integer overflow as *)
(* a panic when the build has overflow checks (debug profile) and as       *)
(* wrapping otherwise (release profile); the build is chosen in Init.      *)
(* Vectors are TLA+ sequences: Rust's v[i] is v[i + 1] here.               *)
(*                                                                         *)
(* Spec is a caller of the three public operations: one new, then any      *)
(* queries and updates with arguments inside and outside their valid       *)
(* ranges.  A panic ends the run with the tree as the panic left it.  seq  *)
(* is a history variable: the sequence handed to new with every update     *)
(* that passed validation applied; visited is another: the arena indices   *)
(* that were the current node of a build_nodes_recursive call during new,  *)
(* in call order.  SpecSize runs get_segment_tree_size on *)
(* every usize, since a length near usize::MAX cannot be reached through a *)
(* vector that fits the model's bounds.                                    *)
(***************************************************************************)
EXTENDS Integers, Sequences, FiniteSets, TLC

VARIABLES overflow_checks, pc, seq, nodes, leaf_len, leaf_indices, last, visited

vars == <<overflow_checks, pc, seq, nodes, leaf_len, leaf_indices, last, visited>>

(* ------------------------------ bounds --------------------------------- *)

\* width of isize in the model
IntBits == 4
\* width of usize in the model
IndexBits == 8
\* longest input sequence handed to new
MaxLen == 4

(* --------------------------- machine integers -------------------------- *)

ISIZE_MAX == 2 ^ (IntBits - 1) - 1
ISIZE_MIN == -(2 ^ (IntBits - 1))
USIZE_MAX == 2 ^ IndexBits - 1

\* Rust's integer division truncates toward zero.
TruncDiv(a, b) == IF a >= 0 THEN a \div b ELSE -((-a) \div b)

MAX_VALUE == TruncDiv(ISIZE_MAX, 2)
MIN_VALUE == TruncDiv(ISIZE_MIN, 2)
MAX_INPUT_SIZE == USIZE_MAX \div 2 - 1

InISize(x) == ISIZE_MIN <= x /\ x <= ISIZE_MAX
InUSize(x) == 0 <= x /\ x <= USIZE_MAX

\* two's complement wrap of a mathematical integer into isize
WrapISize(x) == ((x - ISIZE_MIN) % (2 ^ IntBits)) + ISIZE_MIN
\* wrap of a mathematical integer into usize
WrapUSize(x) == x % (2 ^ IndexBits)

\* isize `a + b`: the value, whether the mathematical sum left the range,
\* and whether the build panicked on it.
add_isize(a, b) ==
    [val   |-> WrapISize(a + b),
     ovf   |-> ~InISize(a + b),
     panic |-> overflow_checks /\ ~InISize(a + b)]

(* ------------------------------- vectors ------------------------------- *)

Get(v, i) == v[i + 1]
Set(v, i, x) == [v EXCEPT ![i + 1] = x]
InBounds(v, i) == 0 <= i /\ i < Len(v)

\* Option<usize>: None is the empty sequence, Some(i) is <<i>>.
None == <<>>
Some(i) == <<i>>
is_some(o) == o /= None
unwrap(o) == o[1]

(* -------------------------------- inputs ------------------------------- *)

\* element values offered to new and update: both clamps and one past each
InputVals == {MIN_VALUE - 1, MIN_VALUE, MAX_VALUE, MAX_VALUE + 1}
\* sequences offered to new, the empty one included
Inputs == UNION {[1..n -> InputVals] : n \in 0..MaxLen}
\* indices offered to query and update, leaf_len and beyond included
Indices == 0..MaxLen

(* ------------------------------ validation ----------------------------- *)

RECURSIVE validate_input_loop(_, _)
validate_input_loop(input, i) ==
    IF i >= Len(input) THEN "Ok"
    ELSE IF Get(input, i) < MIN_VALUE THEN "Input value exceeded maximum value"
    ELSE IF Get(input, i) > MAX_VALUE THEN "Input value exceeded minimum value"
    ELSE validate_input_loop(input, i + 1)

validate_input(input) ==
    IF Len(input) = 0 THEN "Input is empty"
    ELSE IF Len(input) > MAX_INPUT_SIZE THEN "Input size exceeded maximum value"
    ELSE validate_input_loop(input, 0)

(* -------------------------------- sizing ------------------------------- *)

\* smallest h with 2^h >= n: (vec_len as f64).log2().ceil() taken as the
\* integer ceiling of log2
RECURSIVE CeilLog2From(_, _)
CeilLog2From(n, h) == IF 2 ^ h >= n THEN h ELSE CeilLog2From(n, h + 1)
CeilLog2(n) == CeilLog2From(n, 0)

\* usize `1 << height`: shifting by the width or more overflows
shl_usize(height) ==
    [val   |-> WrapUSize(2 ^ (height % IndexBits)),
     ovf   |-> height >= IndexBits,
     panic |-> overflow_checks /\ height >= IndexBits]

\* usize `2 * x`
mul2_usize(x) ==
    [val   |-> WrapUSize(2 * x),
     ovf   |-> ~InUSize(2 * x),
     panic |-> overflow_checks /\ ~InUSize(2 * x)]

\* usize `x - 1`
sub1_usize(x) ==
    [val   |-> WrapUSize(x - 1 + 2 ^ IndexBits),
     ovf   |-> ~InUSize(x - 1),
     panic |-> overflow_checks /\ ~InUSize(x - 1)]

\* the size with the logarithm rounded down instead of up
get_segment_tree_size_floor(vec_len) ==
    IF vec_len = 0 THEN [val |-> 0, ovf |-> FALSE, panic |-> FALSE]
    ELSE LET height    == CeilLog2(vec_len + 1) - 1
             next_pow2 == shl_usize(height)
             twice     == mul2_usize(next_pow2.val)
             size      == sub1_usize(twice.val)
         IN  IF next_pow2.panic THEN [val |-> 0, ovf |-> TRUE, panic |-> TRUE]
             ELSE IF twice.panic THEN [val |-> 0, ovf |-> TRUE, panic |-> TRUE]
             ELSE IF size.panic THEN [val |-> 0, ovf |-> TRUE, panic |-> TRUE]
             ELSE [val   |-> size.val,
                   ovf   |-> next_pow2.ovf \/ twice.ovf \/ size.ovf,
                   panic |-> FALSE]

get_segment_tree_size(vec_len) ==
    IF vec_len = 0 THEN [val |-> 0, ovf |-> FALSE, panic |-> FALSE]
    ELSE LET height    == CeilLog2(vec_len)
             next_pow2 == shl_usize(height)
             twice     == mul2_usize(next_pow2.val)
             size      == sub1_usize(twice.val)
         IN  IF next_pow2.panic THEN [val |-> 0, ovf |-> TRUE, panic |-> TRUE]
             ELSE IF twice.panic THEN [val |-> 0, ovf |-> TRUE, panic |-> TRUE]
             ELSE IF size.panic THEN [val |-> 0, ovf |-> TRUE, panic |-> TRUE]
             ELSE [val   |-> size.val,
                   ovf   |-> next_pow2.ovf \/ twice.ovf \/ size.ovf,
                   panic |-> FALSE]

(* ----------------------------- construction ---------------------------- *)

Node(value, start, end, left, right) ==
    [value |-> value, start |-> start, end |-> end, left |-> left, right |-> right]

reserve_nodes(tree_size) == [i \in 1..tree_size |-> Node(0, 0, 0, None, None)]

\* Result of a build call: the arena and leaf table as the call left them,
\* the returned sum, whether an addition overflowed, whether it panicked,
\* and the arena indices that were the current node of this call and of the
\* calls below it, in call order.
BuildResult(ns, li, ret, ovf, panic, visits) ==
    [nodes |-> ns, leaf_indices |-> li, ret |-> ret, ovf |-> ovf, panic |-> panic,
     visits |-> visits]

RECURSIVE build_nodes_recursive(_, _, _, _, _, _)

\* build giving the right child the left child's slot
build_nodes_recursive_shared_slot(ns, li, node, start, end, input) ==
    IF ~InBounds(ns, node) THEN BuildResult(ns, li, 0, FALSE, TRUE, <<node>>)
    ELSE IF start = end THEN
        BuildResult(
            Set(ns, node, [Get(ns, node) EXCEPT !.value = Get(input, start),
                                                !.start = start,
                                                !.end = end]),
            Set(li, start, node), Get(input, start), FALSE, FALSE, <<node>>)
    ELSE
        LET mid   == (start + end) \div 2
            left  == 2 * node + 1
            right == 2 * node + 1
            ns1   == Set(ns, node, [Get(ns, node) EXCEPT !.left = Some(left),
                                                          !.right = Some(right),
                                                          !.start = start,
                                                          !.end = end])
            l     == build_nodes_recursive(ns1, li, left, start, mid, input)
        IN  IF l.panic THEN [l EXCEPT !.visits = <<node>> \o l.visits]
            ELSE
            LET r == build_nodes_recursive(l.nodes, l.leaf_indices, right, mid + 1, end, input)
                v == <<node>> \o l.visits \o r.visits
            IN  IF r.panic THEN [r EXCEPT !.ovf = l.ovf \/ r.ovf, !.visits = v]
                ELSE
                LET s == add_isize(l.ret, r.ret)
                IN  IF s.panic
                    THEN BuildResult(r.nodes, r.leaf_indices, 0, TRUE, TRUE, v)
                    ELSE BuildResult(
                           Set(r.nodes, node, [Get(r.nodes, node) EXCEPT !.value = s.val]),
                           r.leaf_indices, s.val, l.ovf \/ r.ovf \/ s.ovf, FALSE, v)

\* build with the two child slots exchanged
build_nodes_recursive_children_swapped(ns, li, node, start, end, input) ==
    IF ~InBounds(ns, node) THEN BuildResult(ns, li, 0, FALSE, TRUE, <<node>>)
    ELSE IF start = end THEN
        BuildResult(
            Set(ns, node, [Get(ns, node) EXCEPT !.value = Get(input, start),
                                                !.start = start,
                                                !.end = end]),
            Set(li, start, node), Get(input, start), FALSE, FALSE, <<node>>)
    ELSE
        LET mid   == (start + end) \div 2
            left  == 2 * node + 2
            right == 2 * node + 1
            ns1   == Set(ns, node, [Get(ns, node) EXCEPT !.left = Some(left),
                                                          !.right = Some(right),
                                                          !.start = start,
                                                          !.end = end])
            l     == build_nodes_recursive(ns1, li, left, start, mid, input)
        IN  IF l.panic THEN [l EXCEPT !.visits = <<node>> \o l.visits]
            ELSE
            LET r == build_nodes_recursive(l.nodes, l.leaf_indices, right, mid + 1, end, input)
                v == <<node>> \o l.visits \o r.visits
            IN  IF r.panic THEN [r EXCEPT !.ovf = l.ovf \/ r.ovf, !.visits = v]
                ELSE
                LET s == add_isize(l.ret, r.ret)
                IN  IF s.panic
                    THEN BuildResult(r.nodes, r.leaf_indices, 0, TRUE, TRUE, v)
                    ELSE BuildResult(
                           Set(r.nodes, node, [Get(r.nodes, node) EXCEPT !.value = s.val]),
                           r.leaf_indices, s.val, l.ovf \/ r.ovf \/ s.ovf, FALSE, v)

build_nodes_recursive(ns, li, node, start, end, input) ==
    IF ~InBounds(ns, node) THEN BuildResult(ns, li, 0, FALSE, TRUE, <<node>>)
    ELSE IF start = end THEN
        BuildResult(
            Set(ns, node, [Get(ns, node) EXCEPT !.value = Get(input, start),
                                                !.start = start,
                                                !.end = end]),
            Set(li, start, node), Get(input, start), FALSE, FALSE, <<node>>)
    ELSE
        LET mid   == (start + end) \div 2
            left  == 2 * node + 1
            right == 2 * node + 2
            ns1   == Set(ns, node, [Get(ns, node) EXCEPT !.left = Some(left),
                                                          !.right = Some(right),
                                                          !.start = start,
                                                          !.end = end])
            l     == build_nodes_recursive(ns1, li, left, start, mid, input)
        IN  IF l.panic THEN [l EXCEPT !.visits = <<node>> \o l.visits]
            ELSE
            LET r == build_nodes_recursive(l.nodes, l.leaf_indices, right, mid + 1, end, input)
                v == <<node>> \o l.visits \o r.visits
            IN  IF r.panic THEN [r EXCEPT !.ovf = l.ovf \/ r.ovf, !.visits = v]
                ELSE
                LET s == add_isize(l.ret, r.ret)
                IN  IF s.panic
                    THEN BuildResult(r.nodes, r.leaf_indices, 0, TRUE, TRUE, v)
                    ELSE BuildResult(
                           Set(r.nodes, node, [Get(r.nodes, node) EXCEPT !.value = s.val]),
                           r.leaf_indices, s.val, l.ovf \/ r.ovf \/ s.ovf, FALSE, v)

\* SegmentTree::new: res is "Ok", "Panic" or the error message.
new(input) ==
    LET v == validate_input(input)
    IN  IF v /= "Ok"
        THEN [res |-> v, nodes |-> <<>>, leaf_len |-> 0, leaf_indices |-> <<>>, ovf |-> FALSE,
              visits |-> <<>>]
        ELSE
        LET n        == Len(input)
            tree_len == get_segment_tree_size(n)
        IN  IF tree_len.panic
            THEN [res |-> "Panic", nodes |-> <<>>, leaf_len |-> 0, leaf_indices |-> <<>>,
                  ovf |-> FALSE, visits |-> <<>>]
            ELSE
            LET b == build_nodes_recursive(reserve_nodes(tree_len.val),
                                           [i \in 1..n |-> 0], 0, 0, n - 1, input)
            IN  [res          |-> IF b.panic THEN "Panic" ELSE "Ok",
                 nodes        |-> b.nodes,
                 leaf_len     |-> n,
                 leaf_indices |-> b.leaf_indices,
                 ovf          |-> b.ovf,
                 visits       |-> b.visits]

(* --------------------------------- query ------------------------------- *)

\* A tree value: the three fields of SegmentTree.
Tree(ns, n, li) == [nodes |-> ns, leaf_len |-> n, leaf_indices |-> li]

self == Tree(nodes, leaf_len, leaf_indices)

\* the start check with >= in place of >
validate_public_query_start_off_by_one(t, start, end) ==
    IF t.leaf_len = 0 THEN "Segment tree is empty"
    ELSE IF start > end THEN "Start index is greater than end index"
    ELSE IF start >= t.leaf_len - 1 THEN "Start index is out of bounds"
    ELSE IF end > t.leaf_len - 1 THEN "End index is out of bounds"
    ELSE "Ok"

validate_public_query(t, start, end) ==
    IF t.leaf_len = 0 THEN "Segment tree is empty"
    ELSE IF start > end THEN "Start index is greater than end index"
    ELSE IF start > t.leaf_len - 1 THEN "Start index is out of bounds"
    ELSE IF end > t.leaf_len - 1 THEN "End index is out of bounds"
    ELSE "Ok"

QueryResult(val, ovf, panic) == [val |-> val, ovf |-> ovf, panic |-> panic]

RECURSIVE internal_query_recursive(_, _, _, _)
internal_query_recursive(t, node_idx, start, end) ==
    IF ~InBounds(t.nodes, node_idx) THEN QueryResult(0, FALSE, TRUE)
    ELSE
    LET n == Get(t.nodes, node_idx)
    IN  IF start <= n.start /\ end >= n.end THEN QueryResult(n.value, FALSE, FALSE)
        ELSE IF end < n.start \/ start > n.end THEN QueryResult(0, FALSE, FALSE)
        ELSE IF ~is_some(n.left) THEN QueryResult(0, FALSE, TRUE)
        ELSE
        LET l == internal_query_recursive(t, unwrap(n.left), start, end)
        IN  IF l.panic THEN l
            ELSE IF ~is_some(n.right) THEN QueryResult(0, l.ovf, TRUE)
            ELSE
            LET r == internal_query_recursive(t, unwrap(n.right), start, end)
            IN  IF r.panic THEN QueryResult(0, l.ovf \/ r.ovf, TRUE)
                ELSE
                LET s == add_isize(l.val, r.val)
                IN  QueryResult(IF s.panic THEN 0 ELSE s.val,
                                l.ovf \/ r.ovf \/ s.ovf, s.panic)

\* SegmentTree::query: res is "Ok", "Panic" or the error message.
query(t, start, end) ==
    LET v == validate_public_query(t, start, end)
    IN  IF v /= "Ok" THEN [res |-> v, val |-> 0, ovf |-> FALSE]
        ELSE LET q == internal_query_recursive(t, 0, start, end)
             IN  [res |-> IF q.panic THEN "Panic" ELSE "Ok", val |-> q.val, ovf |-> q.ovf]

(* --------------------------------- update ------------------------------ *)

\* the index check with > in place of >=
validate_public_update_index_off_by_one(t, index, new_value) ==
    IF t.leaf_len = 0 THEN "Segment tree is empty"
    ELSE IF index > t.leaf_len THEN "Update index is out of bounds"
    ELSE IF new_value > MAX_VALUE \/ new_value < MIN_VALUE
         THEN "New value is out of valid range"
    ELSE "Ok"

validate_public_update(t, index, new_value) ==
    IF t.leaf_len = 0 THEN "Segment tree is empty"
    ELSE IF index >= t.leaf_len THEN "Update index is out of bounds"
    ELSE IF new_value > MAX_VALUE \/ new_value < MIN_VALUE
         THEN "New value is out of valid range"
    ELSE "Ok"

AncestorsResult(ns, ovf, panic) == [nodes |-> ns, ovf |-> ovf, panic |-> panic]

\* the loop adding the left child's value twice
RECURSIVE update_ancestors_loop_left_twice(_, _, _)
update_ancestors_loop_left_twice(ns, node_idx, ovf) ==
    IF ~(node_idx > 0) THEN AncestorsResult(ns, ovf, FALSE)
    ELSE
    LET parent == (node_idx - 1) \div 2
    IN  IF ~is_some(Get(ns, parent).left) \/ ~is_some(Get(ns, parent).right)
        THEN AncestorsResult(ns, ovf, TRUE)
        ELSE
        LET left_child == unwrap(Get(ns, parent).left)
            s == add_isize(Get(ns, left_child).value, Get(ns, left_child).value)
        IN  IF s.panic THEN AncestorsResult(ns, TRUE, TRUE)
            ELSE update_ancestors_loop_left_twice(
                    Set(ns, parent, [Get(ns, parent) EXCEPT !.value = s.val]),
                    parent, ovf \/ s.ovf)

\* the while loop of update_ancestors; ovf accumulates over the iterations
RECURSIVE update_ancestors_loop(_, _, _)
update_ancestors_loop(ns, node_idx, ovf) ==
    IF ~(node_idx > 0) THEN AncestorsResult(ns, ovf, FALSE)
    ELSE
    LET parent == (node_idx - 1) \div 2
    IN  IF ~is_some(Get(ns, parent).left) \/ ~is_some(Get(ns, parent).right)
        THEN AncestorsResult(ns, ovf, TRUE)
        ELSE
        LET left_child  == unwrap(Get(ns, parent).left)
            right_child == unwrap(Get(ns, parent).right)
        IN  IF ~InBounds(ns, left_child) \/ ~InBounds(ns, right_child)
            THEN AncestorsResult(ns, ovf, TRUE)
            ELSE
            LET s == add_isize(Get(ns, left_child).value, Get(ns, right_child).value)
            IN  IF s.panic THEN AncestorsResult(ns, TRUE, TRUE)
                ELSE update_ancestors_loop(
                        Set(ns, parent, [Get(ns, parent) EXCEPT !.value = s.val]),
                        parent, ovf \/ s.ovf)

update_ancestors(ns, node_idx) == update_ancestors_loop(ns, node_idx, FALSE)

\* update writing the arena slot `index` instead of leaf_indices[index]
update_wrong_slot(t, index, new_value) ==
    LET v == validate_public_update(t, index, new_value)
    IN  IF v /= "Ok" THEN [res |-> v, tree |-> t, ovf |-> FALSE]
        ELSE IF ~InBounds(t.nodes, index)
        THEN [res |-> "Panic", tree |-> t, ovf |-> FALSE]
        ELSE
        LET ns1 == Set(t.nodes, index, [Get(t.nodes, index) EXCEPT !.value = new_value])
            u   == update_ancestors(ns1, index)
        IN  [res  |-> IF u.panic THEN "Panic" ELSE "Ok",
             tree |-> [t EXCEPT !.nodes = u.nodes],
             ovf  |-> u.ovf]

\* SegmentTree::update: res is "Ok", "Panic" or the error message; tree is
\* the tree as the call left it.
update(t, index, new_value) ==
    LET v == validate_public_update(t, index, new_value)
    IN  IF v /= "Ok" THEN [res |-> v, tree |-> t, ovf |-> FALSE]
        ELSE IF ~InBounds(t.leaf_indices, index)
        THEN [res |-> "Panic", tree |-> t, ovf |-> FALSE]
        ELSE
        LET leaf_node == Get(t.leaf_indices, index)
        IN  IF ~InBounds(t.nodes, leaf_node)
            THEN [res |-> "Panic", tree |-> t, ovf |-> FALSE]
            ELSE
            LET ns1 == Set(t.nodes, leaf_node,
                           [Get(t.nodes, leaf_node) EXCEPT !.value = new_value])
                u   == update_ancestors(ns1, leaf_node)
            IN  [res  |-> IF u.panic THEN "Panic" ELSE "Ok",
                 tree |-> [t EXCEPT !.nodes = u.nodes],
                 ovf  |-> u.ovf]

(* ----------------------------- state machine --------------------------- *)

\* The record of the last call: operation, arguments a and b, result
\* ("Ok", "Panic" or the error message), returned value, whether one of its
\* additions left the integer range, and, for update of a valid position,
\* the value query(index, index) returned before the call.
Call(op, a, b, res, val, ovf, old) ==
    [op |-> op, a |-> a, b |-> b, res |-> res, val |-> val, ovf |-> ovf, old |-> old]

IsErr(res) == res \notin {"Ok", "Panic"}

Init ==
    /\ overflow_checks \in BOOLEAN
    /\ pc = "start"
    /\ seq = <<>>
    /\ nodes = <<>>
    /\ leaf_len = 0
    /\ leaf_indices = <<>>
    /\ last = Call("none", 0, 0, "Ok", 0, FALSE, 0)
    /\ visited = <<>>

\* let tree = SegmentTree::new(&input); seq keeps the sequence handed in
New(input) ==
    /\ pc = "start"
    /\ \E r \in {new(input)} :
           /\ pc' = IF r.res = "Ok" THEN "ready"
                    ELSE IF r.res = "Panic" THEN "panicked" ELSE "rejected"
           /\ seq' = input
           /\ nodes' = r.nodes
           /\ leaf_len' = r.leaf_len
           /\ leaf_indices' = r.leaf_indices
           /\ last' = Call("new", 0, 0, r.res, 0, r.ovf, 0)
           /\ visited' = r.visits
    /\ UNCHANGED overflow_checks

\* tree.query(start, end)
Query(start, end) ==
    /\ pc = "ready"
    /\ \E r \in {query(self, start, end)} :
           /\ pc' = IF r.res = "Panic" THEN "panicked" ELSE "ready"
           /\ last' = Call("query", start, end, r.res, r.val, r.ovf, 0)
    /\ UNCHANGED <<overflow_checks, seq, nodes, leaf_len, leaf_indices, visited>>

\* tree.update(index, new_value); seq follows every update that got past
\* validation
Update(index, new_value) ==
    /\ pc = "ready"
    /\ \E r \in {update(self, index, new_value)} :
           /\ pc' = IF r.res = "Panic" THEN "panicked" ELSE "ready"
           /\ seq' = IF IsErr(r.res) \/ ~InBounds(seq, index) THEN seq
                    ELSE Set(seq, index, new_value)
           /\ nodes' = r.tree.nodes
           /\ leaf_len' = r.tree.leaf_len
           /\ leaf_indices' = r.tree.leaf_indices
           /\ last' = Call("update", index, new_value, r.res, 0, r.ovf,
                           IF index < leaf_len THEN query(self, index, index).val ELSE 0)
    /\ UNCHANGED <<overflow_checks, visited>>

Next ==
    \/ \E input \in Inputs : New(input)
    \/ \E start \in Indices, end \in Indices : Query(start, end)
    \/ \E index \in Indices, new_value \in InputVals : Update(index, new_value)

Spec == Init /\ [][Next]_vars

(* ------------------- the sizing function on its own -------------------- *)

\* every usize is a possible argument of get_segment_tree_size
InitSize ==
    /\ overflow_checks \in BOOLEAN
    /\ pc = "size_start"
    /\ seq = <<>>
    /\ nodes = <<>>
    /\ leaf_len \in 0..USIZE_MAX
    /\ leaf_indices = <<>>
    /\ last = Call("none", 0, 0, "Ok", 0, FALSE, 0)
    /\ visited = <<>>

\* let tree_len = SegmentTree::get_segment_tree_size(leaf_len)
GetSize ==
    /\ pc = "size_start"
    /\ \E r \in {get_segment_tree_size(leaf_len)} :
           last' = Call("size", leaf_len, 0, IF r.panic THEN "Panic" ELSE "Ok",
                        r.val, r.ovf, 0)
    /\ pc' = "sized"
    /\ UNCHANGED <<overflow_checks, seq, nodes, leaf_len, leaf_indices, visited>>

NextSize == GetSize

SpecSize == InitSize /\ [][NextSize]_vars

(* ------------------------- specification terms ------------------------ *)

\* sum of the positions lo..hi of a sequence s, positions counted from 0
RECURSIVE SumRange(_, _, _)
SumRange(s, lo, hi) == IF lo > hi THEN 0 ELSE Get(s, lo) + SumRange(s, lo + 1, hi)

\* arena indices on the way from i to the root by parent = floor((i-1)/2)
RECURSIVE PathToRoot(_)
PathToRoot(i) == IF i = 0 THEN {0} ELSE {i} \cup PathToRoot((i - 1) \div 2)

ArenaIndices == 0..(Len(nodes) - 1)
Positions == 0..(leaf_len - 1)

\* the element is outside the clamp
OutOfRange(v) == v > MAX_VALUE \/ v < MIN_VALUE

\* smallest power of two >= n
NextPowerOfTwo(n) ==
    CHOOSE p \in {2 ^ k : k \in 0..IndexBits} :
        /\ p >= n
        /\ \A q \in {2 ^ k : k \in 0..IndexBits} : q >= n => p <= q

(* --------------------------------- claims ------------------------------ *)

\* C1 (as stated): once new has succeeded, after any successful updates,
\* every query(lo, hi) with lo <= hi <= leaf_len - 1 returns Ok(s) with s
\* the sum of the current sequence over lo..hi.
C1_QueryReturnsSum ==
    pc = "ready" =>
        \A lo \in Positions, hi \in Positions :
            lo <= hi =>
                /\ query(self, lo, hi).res = "Ok"
                /\ query(self, lo, hi).val = SumRange(seq, lo, hi)

\* C2 (as stated): in every tree state reached by a successful new or
\* update, every node with children holds the sum of its children's values.
C2_InternalNodeIsSumOfChildren ==
    pc = "ready" =>
        \A i \in ArenaIndices :
            is_some(Get(nodes, i).left) =>
                Get(nodes, i).value =
                    Get(nodes, unwrap(Get(nodes, i).left)).value
                    + Get(nodes, unwrap(Get(nodes, i).right)).value

\* C3: update returns an error exactly when index >= leaf_len or the new
\* value is outside [MIN_VALUE, MAX_VALUE], and a rejected update leaves
\* nodes, leaf_len and leaf_indices as they were (query reads nothing else,
\* so every query returns what it returned before).
C3_UpdateRejection ==
    [][last'.op = "update" =>
          /\ IsErr(last'.res) <=> (last'.a >= leaf_len \/ OutOfRange(last'.b))
          /\ IsErr(last'.res) =>
                /\ nodes' = nodes
                /\ leaf_len' = leaf_len
                /\ leaf_indices' = leaf_indices]_vars

\* C3 witness: an update of a valid position was rejected for its value,
\* on a tree of three leaves.
C3_Witness ==
    /\ pc = "ready"
    /\ leaf_len = 3
    /\ last.op = "update"
    /\ last.a < leaf_len
    /\ last.b = MAX_VALUE + 1
    /\ IsErr(last.res)

\* C4: query returns an error exactly when lo > hi, or lo > leaf_len - 1,
\* or hi > leaf_len - 1; no other pair is rejected.  (Query is taken with
\* every pair of Indices in every ready state and leaves leaf_len alone.)
C4_QueryRejection ==
    last.op = "query" =>
        (IsErr(last.res)
            <=> (last.a > last.b \/ last.a > leaf_len - 1 \/ last.b > leaf_len - 1))

\* C4 witness: a query starting at the second-to-last position was answered.
C4_Witness ==
    /\ leaf_len >= 2
    /\ last.op = "query"
    /\ last.a = leaf_len - 2
    /\ last.b = leaf_len - 1
    /\ last.res = "Ok"

\* C5 (as stated): new returns an error exactly when the input is empty or
\* holds an element outside [MIN_VALUE, MAX_VALUE]; every other input
\* yields a tree.
C5_NewRejection ==
    last.op = "new" =>
        /\ IsErr(last.res) <=> (Len(seq) = 0 \/ \E k \in 1..Len(seq) : OutOfRange(seq[k]))
        /\ ~IsErr(last.res) => (last.res = "Ok" /\ pc = "ready" /\ leaf_len = Len(seq))

\* C6 (as stated): no addition left.value + right.value done by
\* build_nodes_recursive or update_ancestors leaves [ISIZE_MIN, ISIZE_MAX].
C6_NoOverflowInChildSums ==
    last.op \in {"new", "update"} => ~last.ovf

\* C7 (as stated): for 1 <= n <= MAX_INPUT_SIZE, get_segment_tree_size(n)
\* is 2 * next_power_of_two(n) - 1 and no step of it overflows usize.
C7_SizeWithoutOverflow ==
    (last.op = "size" /\ 1 <= last.a /\ last.a <= MAX_INPUT_SIZE) =>
        /\ last.res = "Ok"
        /\ ~last.ovf
        /\ last.val = 2 * NextPowerOfTwo(last.a) - 1

\* C8 (as stated): for all a <= b < c <= leaf_len - 1,
\* query(a, b) + query(b+1, c) = query(a, c).
C8_QueryAdditivity ==
    pc = "ready" =>
        \A a \in Positions, b \in Positions, c \in Positions :
            (a <= b /\ b < c) =>
                /\ query(self, a, b).res = "Ok"
                /\ query(self, b + 1, c).res = "Ok"
                /\ query(self, a, c).res = "Ok"
                /\ query(self, a, b).val + query(self, b + 1, c).val
                       = query(self, a, c).val

\* C9: update(i, v) with i < leaf_len and v the value query(i, i) returns
\* succeeds and leaves the value of every node of the arena as it was.
C9_NoOpUpdate ==
    [][(last'.op = "update" /\ last'.a < leaf_len /\ last'.b = last'.old) =>
          /\ last'.res = "Ok"
          /\ Len(nodes') = Len(nodes)
          /\ \A k \in ArenaIndices : Get(nodes', k).value = Get(nodes, k).value]_vars

\* C9 witness: a position of a three-leaf tree was updated to the value it
\* already held.
C9_Witness ==
    /\ pc = "ready"
    /\ leaf_len = 3
    /\ last.op = "update"
    /\ last.res = "Ok"
    /\ last.old = last.b

\* C10: a successful update(index, new_value) sets the value of the node at
\* leaf_indices[index] to new_value, changes value only on the path from
\* that node to the root, and leaves every start, end, left, right, the
\* arena length, leaf_len and leaf_indices alone; query changes nothing.
C10_UpdateFrame ==
    [][/\ (last'.op = "update" /\ last'.res = "Ok") =>
            /\ Len(nodes') = Len(nodes)
            /\ leaf_len' = leaf_len
            /\ leaf_indices' = leaf_indices
            /\ Get(nodes', Get(leaf_indices, last'.a)).value = last'.b
            /\ \A k \in ArenaIndices :
                   /\ Get(nodes', k).start = Get(nodes, k).start
                   /\ Get(nodes', k).end = Get(nodes, k).end
                   /\ Get(nodes', k).left = Get(nodes, k).left
                   /\ Get(nodes', k).right = Get(nodes, k).right
            /\ \A k \in ArenaIndices \ PathToRoot(Get(leaf_indices, last'.a)) :
                   Get(nodes', k).value = Get(nodes, k).value
       /\ last'.op = "query" =>
            /\ nodes' = nodes
            /\ leaf_len' = leaf_len
            /\ leaf_indices' = leaf_indices]_vars

\* C10 witness: a successful update changed a position of a three-leaf tree.
C10_Witness ==
    /\ pc = "ready"
    /\ leaf_len = 3
    /\ last.op = "update"
    /\ last.res = "Ok"
    /\ last.old /= last.b

\* arena indices reachable from i through left and right links, following
\* at most fuel links
RECURSIVE ReachableFrom(_, _, _)
ReachableFrom(ns, i, fuel) ==
    IF ~InBounds(ns, i) THEN {}
    ELSE IF fuel = 0 THEN {i}
    ELSE {i}
         \cup (IF is_some(Get(ns, i).left)
               THEN ReachableFrom(ns, unwrap(Get(ns, i).left), fuel - 1) ELSE {})
         \cup (IF is_some(Get(ns, i).right)
               THEN ReachableFrom(ns, unwrap(Get(ns, i).right), fuel - 1) ELSE {})

Reachable == ReachableFrom(nodes, 0, Len(nodes))

\* C11: in every tree state, the root covers [0, leaf_len - 1] and every
\* node reachable from it has start <= end, has both children or none, is a
\* leaf exactly when start = end, and, when internal, has its children at
\* 2*i+1 and 2*i+2, splitting its interval without gap or overlap.
C11_TreeShape ==
    pc = "ready" =>
        /\ Get(nodes, 0).start = 0
        /\ Get(nodes, 0).end = leaf_len - 1
        /\ \A i \in Reachable :
               /\ Get(nodes, i).start <= Get(nodes, i).end
               /\ is_some(Get(nodes, i).left) <=> is_some(Get(nodes, i).right)
               /\ ~is_some(Get(nodes, i).left) <=> (Get(nodes, i).start = Get(nodes, i).end)
               /\ is_some(Get(nodes, i).left) =>
                     /\ unwrap(Get(nodes, i).left) = 2 * i + 1
                     /\ unwrap(Get(nodes, i).right) = 2 * i + 2
                     /\ InBounds(nodes, 2 * i + 2)
                     /\ Get(nodes, 2 * i + 1).start = Get(nodes, i).start
                     /\ Get(nodes, 2 * i + 2).end = Get(nodes, i).end
                     /\ Get(nodes, 2 * i + 1).end + 1 = Get(nodes, 2 * i + 2).start

\* C11 witness: a three-leaf tree after an update that changed it; its
\* leaves sit at two depths (slot 2 is a leaf, slot 1 has children).
C11_Witness ==
    /\ pc = "ready"
    /\ leaf_len = 3
    /\ last.op = "update"
    /\ last.old /= last.b
    /\ ~is_some(Get(nodes, 2).left)
    /\ is_some(Get(nodes, 1).left)
    /\ Reachable = {0, 1, 2, 3, 4}

\* the arena indices build visited, as a set
VisitedSet == {visited[k] : k \in 1..Len(visited)}

\* C12: for an input new accepts, with n its length, every arena index
\* build writes is below the arena length 2 * next_power_of_two(n) - 1 (also
\* when an addition panics on the way); build makes exactly n leaves, the
\* one for position p recorded in leaf_indices[p]; the slots it does not
\* write keep the reserved contents and cannot be reached from the root.
C12_BuildStaysInArena ==
    /\ (last.op = "new" /\ ~IsErr(last.res)) =>
          /\ Len(nodes) = 2 * NextPowerOfTwo(Len(seq)) - 1
          /\ \A k \in 1..Len(visited) : visited[k] < Len(nodes)
    /\ (last.op = "new" /\ last.res = "Ok") =>
          /\ Len(leaf_indices) = Len(seq)
          /\ \A p \in Positions :
                 /\ Get(leaf_indices, p) \in VisitedSet
                 /\ Get(nodes, Get(leaf_indices, p)) =
                        Node(Get(seq, p), p, p, None, None)
          /\ \A p \in Positions, q \in Positions :
                 Get(leaf_indices, p) = Get(leaf_indices, q) => p = q
          /\ {k \in VisitedSet : ~is_some(Get(nodes, k).left)}
                 = {Get(leaf_indices, p) : p \in Positions}
          /\ \A k \in ArenaIndices \ VisitedSet :
                 /\ Get(nodes, k) = Node(0, 0, 0, None, None)
                 /\ k \notin Reachable

\* C12 witness: new built a tree for three elements in an arena of seven
\* slots and left slots 5 and 6 unwritten.
C12_Witness ==
    /\ last.op = "new"
    /\ last.res = "Ok"
    /\ leaf_len = 3
    /\ Len(nodes) = 7
    /\ VisitedSet = {0, 1, 2, 3, 4}
    /\ leaf_indices = <<3, 4, 2>>

\* how many build calls had slot k as their current node
VisitCount(k) == Cardinality({j \in 1..Len(visited) : visited[j] = k})

\* C13 (as stated): in a completed new, every slot of the arena is the
\* current node of exactly one build_nodes_recursive call.
C13_EverySlotVisitedOnce ==
    (last.op = "new" /\ last.res = "Ok") =>
        \A k \in ArenaIndices : VisitCount(k) = 1

\* C13 (amended): in a completed new on n elements no slot is the current
\* node of more than one call; the 2n - 1 slots visited are those reachable
\* from the root; they are all the slots of the arena exactly when n is a
\* power of two, and otherwise the other slots are skipped.
C13_NoSlotVisitedTwice ==
    (last.op = "new" /\ last.res = "Ok") =>
        /\ \A k \in ArenaIndices : VisitCount(k) <= 1
        /\ Len(visited) = 2 * leaf_len - 1
        /\ VisitedSet = Reachable
        /\ (VisitedSet = ArenaIndices) <=> (leaf_len = NextPowerOfTwo(leaf_len))

\* C13 witness: new on three elements visited slots 0, 1, 3, 4, 2 in that
\* order and skipped slots 5 and 6.
C13_Witness ==
    /\ last.op = "new"
    /\ last.res = "Ok"
    /\ visited = <<0, 1, 3, 4, 2>>
    /\ VisitCount(5) = 0
    /\ VisitCount(6) = 0
    /\ ArenaIndices = 0..6

====
